---- MODULE Spec2Model ----
(***************************************************************************)
(* keystr: a key-press counter.  A detached daemon (cmd_daemon) owns a     *)
(* mutex-guarded KeystrokeData, increments it from the key-press hook      *)
(* callback, saves it to data.json every 10th increment and from the       *)
(* termination handler; the foreground commands start / stop / status /    *)
(* reset coordinate with it through daemon.pid and data.json only.         *)
(*                                                                         *)
(* The model is of the unix build (the #[cfg(unix)] branches), with the    *)
(* termination handler registered through ctrlc receiving the signal that  *)
(* `kill <pid>` sends (HandlesTermination).  File-system writes do not     *)
(* fail in the model.                                                      *)
(***************************************************************************)
EXTENDS Integers, Sequences, FiniteSets

(***************************************************************************)
(* Bounds of the model.                                                    *)
(***************************************************************************)
\* number of daemon processes that can be spawned in one behaviour
MaxDaemons == 2
\* number of concurrent invocations of the hook callback per daemon
NumThreads == 2
\* key presses delivered in one behaviour of the whole system
MaxKeys == 1
\* foreground commands issued in one behaviour
MaxCmds == 3
\* key presses delivered in one start -> keys -> stop run
MaxRunKeys == 25
\* seconds the clock can advance in one behaviour
MaxTicks == 1
\* the process id the operating system gives the first daemon
FirstPid == 41
\* the day (since the epoch) whose last second is the initial clock value
StartDay == 19
\* days the clock can be moved on in a behaviour of the counting daemon
MaxDays == 2
\* key presses delivered to the counting daemon
MaxDayKeys == 5
\* the later of the days on which statistics are asked for
StatsDay == 19726
\* age in days of the oldest record in the stores statistics are asked of
MaxAgeDays == 40
\* largest count in the stores and files enumerated for load/save
MaxCount == 2
\* longest record list in the stores enumerated for load/save
MaxRecs == 2

(***************************************************************************)
(* Program constants.                                                      *)
(***************************************************************************)
\* seconds per day bucket (format_date_storage)
DaySecs == 86400
\* the callback saves when total_count % 10 == 0
SaveEvery == 10

(***************************************************************************)
(* Text.  A string is a sequence of characters; the characters 0..9 are    *)
(* the decimal digits, 32 (space) and 10 (newline) are whitespace, 120 is  *)
(* a letter.                                                               *)
(***************************************************************************)
Whitespace == {32, 10}
Letters == {120}

IsDigit(c) == c \in 0..9
IsSpace(c) == c \in Whitespace

RECURSIVE U64ToString(_)
\* u64 / u32 Display: the decimal digits, most significant first
U64ToString(n) == IF n < 10 THEN <<n>> ELSE Append(U64ToString(n \div 10), n % 10)

RECURSIVE TrimStart(_)
TrimStart(s) == IF s # <<>> /\ IsSpace(Head(s)) THEN TrimStart(Tail(s)) ELSE s

RECURSIVE TrimEnd(_)
TrimEnd(s) ==
    IF s # <<>> /\ IsSpace(s[Len(s)]) THEN TrimEnd(SubSeq(s, 1, Len(s) - 1)) ELSE s

\* str::trim
Trim(s) == TrimEnd(TrimStart(s))

RECURSIVE DigitsValue(_)
DigitsValue(s) ==
    IF s = <<>> THEN 0 ELSE 10 * DigitsValue(SubSeq(s, 1, Len(s) - 1)) + s[Len(s)]

\* str::parse::<u32>: Ok for a non-empty string of digits, Err otherwise
ParseU32(s) ==
    IF s # <<>> /\ \A i \in 1..Len(s) : IsDigit(s[i])
    THEN [ok |-> TRUE, val |-> DigitsValue(s)]
    ELSE [ok |-> FALSE, val |-> 0]

(***************************************************************************)
(* The store.                                                              *)
(***************************************************************************)
\* KeystrokeData::new
NewStore == [total_count |-> 0, daily_records |-> <<>>]

DailyRecord(d, c, ts) == [date |-> d, count |-> c, timestamp |-> ts]

(***************************************************************************)
(* JSON documents, as serde_json sees them: numbers, strings, arrays and   *)
(* objects (a sequence of key/value entries, in file order).  NotJson is   *)
(* text that is no JSON document, InvalidUtf8 a file read_to_string        *)
(* rejects.                                                                *)
(***************************************************************************)
JNum(n) == [t |-> "num", n |-> n]
JStr(s) == [t |-> "str", s |-> s]
JArr(a) == [t |-> "arr", a |-> a]
JObj(o) == [t |-> "obj", o |-> o]
NotJson == [t |-> "notjson"]
InvalidUtf8 == [t |-> "bytes"]
Entry(k, v) == [k |-> k, v |-> v]

\* the values an object gives for key k, in file order
FieldValues(o, k) ==
    LET hits == SelectSeq(o, LAMBDA e : e.k = k)
    IN  [i \in 1..Len(hits) |-> hits[i].v]

\* Deserialize for u64: a non-negative JSON integer
DeU64(v) ==
    IF v.t = "num" /\ v.n >= 0 THEN [ok |-> TRUE, val |-> v.n]
    ELSE [ok |-> FALSE, val |-> 0]

\* Deserialize for String
DeString(v) ==
    IF v.t = "str" THEN [ok |-> TRUE, val |-> v.s] ELSE [ok |-> FALSE, val |-> <<>>]

\* the value a derived struct reads for field k from an object: the value of
\* the only entry with that key; none (missing field) and two (duplicate
\* field) are errors, as is NotJson for every Deserialize
Field(o, k) ==
    LET vs == FieldValues(o, k)
    IN  IF Len(vs) = 1 THEN vs[1] ELSE NotJson

\* the value a derived struct of n fields reads for its i-th field from an
\* array: an array of another length is an error
Elem(a, i, n) == IF Len(a) = n THEN a[i] ELSE NotJson

\* the value for field number i, named k, of a struct of n fields in v
StructField(v, k, i, n) ==
    IF v.t = "obj" THEN Field(v.o, k)
    ELSE IF v.t = "arr" THEN Elem(v.a, i, n)
    ELSE NotJson

\* #[derive(Deserialize)] struct DailyRecord: no serde attributes, so every
\* field is required and unknown keys are ignored
DeDailyRecord(v) ==
    LET d == DeString(StructField(v, "date", 1, 3))
        c == DeU64(StructField(v, "count", 2, 3))
        ts == DeU64(StructField(v, "timestamp", 3, 3))
    IN  [ok |-> d.ok /\ c.ok /\ ts.ok, val |-> DailyRecord(d.val, c.val, ts.val)]

\* Deserialize for Vec<DailyRecord>
DeRecords(v) ==
    IF v.t = "arr" /\ \A i \in 1..Len(v.a) : DeDailyRecord(v.a[i]).ok
    THEN [ok |-> TRUE, val |-> [i \in 1..Len(v.a) |-> DeDailyRecord(v.a[i]).val]]
    ELSE [ok |-> FALSE, val |-> <<>>]

\* #[derive(Deserialize)] struct KeystrokeData
DeKeystrokeData(v) ==
    LET tc == DeU64(StructField(v, "total_count", 1, 2))
        dr == DeRecords(StructField(v, "daily_records", 2, 2))
    IN  [ok |-> tc.ok /\ dr.ok,
         val |-> [total_count |-> tc.val, daily_records |-> dr.val]]

\* Serialize for DailyRecord with a bug: count and timestamp change places
SerDailyRecordSwapped(r) ==
    JObj(<<Entry("date", JStr(r.date)), Entry("count", JNum(r.timestamp)),
           Entry("timestamp", JNum(r.count))>>)

\* #[derive(Serialize)] struct DailyRecord
SerDailyRecord(r) ==
    JObj(<<Entry("date", JStr(r.date)), Entry("count", JNum(r.count)),
           Entry("timestamp", JNum(r.timestamp))>>)

\* #[derive(Serialize)] struct KeystrokeData
SerKeystrokeData(d) ==
    JObj(<<Entry("total_count", JNum(d.total_count)),
           Entry("daily_records",
                 JArr([i \in 1..Len(d.daily_records) |->
                          SerDailyRecord(d.daily_records[i])]))>>)

(***************************************************************************)
(* Files.                                                                  *)
(***************************************************************************)
NoFile == [exists |-> FALSE, doc |-> NotJson]
FileOf(doc) == [exists |-> TRUE, doc |-> doc]

\* load_data with the parse error unwrapped instead of recovered
LoadDataUnwrap(file) ==
    IF file.exists
    THEN LET content == IF file.doc = InvalidUtf8 THEN JObj(<<>>) ELSE file.doc
             r == DeKeystrokeData(content)
         IN  [raised |-> ~r.ok, data |-> r.val]
    ELSE [raised |-> FALSE, data |-> NewStore]

\* load_data: the store the caller gets, and whether an error reached it
LoadData(file) ==
    IF file.exists
    THEN LET content == IF file.doc = InvalidUtf8 THEN JObj(<<>>) ELSE file.doc
             r == DeKeystrokeData(content)
         IN  [raised |-> FALSE, data |-> IF r.ok THEN r.val ELSE NewStore]
    ELSE [raised |-> FALSE, data |-> NewStore]

\* save_data: the file it leaves
SaveData(data) == FileOf(SerKeystrokeData(data))

(***************************************************************************)
(* The clock and the day bucket.                                           *)
(***************************************************************************)
\* the initial clock value: the last second of day StartDay
StartTime == (StartDay + 1) * DaySecs - 1

\* The clock is followed second by second around midnight only: from
\* MaxTicks seconds before the last second of a day to MaxTicks seconds
\* after it.
CanTick(t) == (t - (StartTime - MaxTicks)) % DaySecs < 2 * MaxTicks

\* format_date_storage, for the clock value t
FormatDateStorage(t) == U64ToString(t \div DaySecs)

\* increment with a bug: the record of today is not looked up
IncrementAlwaysPushes(data, today, timestamp) ==
    [total_count |-> data.total_count + 1,
     daily_records |->
         Append(data.daily_records, DailyRecord(today, 1, timestamp))]

\* increment with a bug: the key press is added to the newest record,
\* whatever its day
IncrementMergesIntoLast(data, today, timestamp) ==
    LET n == Len(data.daily_records)
    IN  IF n = 0 THEN IncrementAlwaysPushes(data, today, timestamp)
        ELSE [total_count |-> data.total_count + 1,
              daily_records |-> [data.daily_records EXCEPT ![n].count = @ + 1]]

\* increment with a bug: the record of today takes the new timestamp
IncrementRestamps(data, today, timestamp) ==
    IF \E i \in 1..Len(data.daily_records) : data.daily_records[i].date = today
    THEN [total_count |-> data.total_count + 1,
          daily_records |->
              [i \in 1..Len(data.daily_records) |->
                  IF data.daily_records[i].date = today
                  THEN DailyRecord(today, data.daily_records[i].count + 1,
                                   timestamp)
                  ELSE data.daily_records[i]]]
    ELSE IncrementAlwaysPushes(data, today, timestamp)

\* KeystrokeData::increment, with `today` the value format_date_storage
\* returned and `timestamp` the value current_timestamp returned
Increment(data, today, timestamp) ==
    IF \E i \in 1..Len(data.daily_records) : data.daily_records[i].date = today
    THEN LET i == CHOOSE j \in 1..Len(data.daily_records) :
                      /\ data.daily_records[j].date = today
                      /\ \A k \in 1..(j - 1) : data.daily_records[k].date # today
         IN  [total_count |-> data.total_count + 1,
              daily_records |->
                  [data.daily_records EXCEPT ![i].count = @ + 1]]
    ELSE [total_count |-> data.total_count + 1,
          daily_records |->
              Append(data.daily_records, DailyRecord(today, 1, timestamp))]

(***************************************************************************)
(* The windowed sums.  current_timestamp() - window is a u64 subtraction:  *)
(* when the clock is smaller than the window a build with overflow checks  *)
(* panics and a build without them wraps to 2^64 - (window - now).  A      *)
(* cutoff is [wrapped, val]: the value val, or 2^64 - val when wrapped.    *)
(***************************************************************************)
\* 7 * 24 * 60 * 60
WeekSecs == 604800
\* 30 * 24 * 60 * 60
MonthSecs == 2592000

\* the builds: with overflow checks (debug) and without (release)
Builds == {"debug", "release"}

\* the sum of count over the records rs
RECURSIVE SumCounts(_)
SumCounts(rs) ==
    IF rs = <<>> THEN 0 ELSE Head(rs).count + SumCounts(Tail(rs))

\* current_timestamp() - window with wrapping
WrappingSub(t, window) ==
    IF t >= window THEN [wrapped |-> FALSE, val |-> t - window]
    ELSE [wrapped |-> TRUE, val |-> window - t]

\* r.timestamp >= cutoff; a timestamp of the model is below 2^31, so it is
\* never at least 2^64 - val for a val of at most a window
AtLeast(timestamp, cutoff) ==
    IF cutoff.wrapped THEN FALSE ELSE timestamp >= cutoff.val

\* .filter(|r| r.timestamp >= cutoff)
RECURSIVE Since(_, _)
Since(rs, cutoff) ==
    IF rs = <<>> THEN <<>>
    ELSE IF AtLeast(Head(rs).timestamp, cutoff)
         THEN <<Head(rs)>> \o Since(Tail(rs), cutoff)
         ELSE Since(Tail(rs), cutoff)

\* the body shared by get_weekly_stats and get_monthly_stats, at clock t
WindowedSum(data, t, window, build) ==
    IF t < window /\ build = "debug"
    THEN [panicked |-> TRUE, sum |-> 0]
    ELSE [panicked |-> FALSE,
          sum |-> SumCounts(Since(data.daily_records, WrappingSub(t, window)))]

\* KeystrokeData::get_weekly_stats
GetWeeklyStats(data, t, build) == WindowedSum(data, t, WeekSecs, build)

\* KeystrokeData::get_monthly_stats
GetMonthlyStats(data, t, build) == WindowedSum(data, t, MonthSecs, build)

(***************************************************************************)
(* format_date_display.  The result "DD Mon YYYY" is kept as its three     *)
(* parts: the digits of the day, the month name, the digits of the year.   *)
(***************************************************************************)
MonthDays == <<31, 28, 31, 30, 31, 30, 31, 31, 30, 31, 30, 31>>
MonthNames == <<"Jan", "Feb", "Mar", "Apr", "May", "Jun",
                "Jul", "Aug", "Sep", "Oct", "Nov", "Dec">>

\* format!("{:02}", n) for n >= 0
Pad2(n) == IF n < 10 THEN <<0>> \o U64ToString(n) ELSE U64ToString(n)

\* the loop over month_days from index i (1-based) with `day` left:
\* [month, day], month 0 when the loop ends without a break
RECURSIVE MonthLoop(_, _)
MonthLoop(i, day) ==
    IF i > Len(MonthDays) THEN [month |-> 0, day |-> day]
    ELSE IF day <= MonthDays[i] THEN [month |-> i, day |-> day]
    ELSE MonthLoop(i + 1, day - MonthDays[i])

\* format_date_display for the time t seconds after the epoch
FormatDateDisplay(t) ==
    LET days_since_epoch == t \div DaySecs
        years_passed == days_since_epoch \div 365
        leap_days == years_passed \div 4
        left == days_since_epoch - years_passed * 365 - leap_days
        year == IF left < 0 THEN 1970 + years_passed - 1 ELSE 1970 + years_passed
        days_remaining == IF left < 0 THEN left + 365 ELSE left
        found == MonthLoop(1, days_remaining)
        month == IF found.month = 0 THEN 12 ELSE found.month
        day == IF found.month = 0 THEN MonthDays[12] ELSE found.day
    IN  [day |-> Pad2(day), month |-> MonthNames[month],
         year |-> U64ToString(year)]

(***************************************************************************)
(* State.                                                                  *)
(***************************************************************************)
VARIABLES
    now,        \* the system clock, seconds since the epoch
    dataFile,   \* data.json
    pidFile,    \* daemon.pid: [exists, text]
    proc,       \* the process table: pid -> [status, code]
    dpc,        \* pid -> where the daemon's main thread is in cmd_daemon
    mem,        \* pid -> the KeystrokeData behind the daemon's Arc<Mutex<..>>
    mutex,      \* pid -> holder of the mutex: 0 free, t a callback, -1 the handler
    hpc,        \* pid -> where the termination handler is
    cpc,        \* pid -> callback invocation -> where it is
    creg,       \* pid -> callback invocation -> total_count as it read it
    pressed,    \* pid -> key presses the callback has been entered for
    fg,         \* the foreground command in progress: [cmd, pc, pid, n]
    issued,     \* foreground commands issued so far
    answer,     \* what the last is_running call returned: [some, pid]
    afterReset, \* key presses delivered since the last confirmed reset,
                \* -1 before the first (history, not program state)
    view,       \* what the last operation of a reader returned
    arg,        \* the store last handed to save_data by a writer, or the
                \* record last displayed by a reader
    op          \* the last load/save operation of the reader/writer

daemonVars == <<proc, dpc, mem, mutex, hpc, cpc, creg, pressed>>
storeVars == <<view, arg, op>>
userVars == <<fg, issued, answer, afterReset, storeVars>>
vars == <<now, dataFile, pidFile, daemonVars, userVars>>

Pids == FirstPid..(FirstPid + MaxDaemons - 1)
Threads == 1..NumThreads
\* a process id left in daemon.pid by a daemon that died without cleaning up
StalePid == FirstPid - 1

NoPidFile == [exists |-> FALSE, text |-> <<>>]
PidFileOf(pid) == [exists |-> TRUE, text |-> U64ToString(pid)]
Idle == [cmd |-> "none", pc |-> "idle", pid |-> 0, n |-> 0]
None == [some |-> FALSE, pid |-> 0]
Some(pid) == [some |-> TRUE, pid |-> pid]
NoView == [raised |-> FALSE, data |-> NewStore]

\* a store a previous run left: one short of its second periodic save
SeedStore ==
    [total_count |-> 2 * SaveEvery - 1,
     daily_records |->
         <<DailyRecord(FormatDateStorage(StartTime), 2 * SaveEvery - 1,
                       StartDay * DaySecs)>>]

\* `kill -0 pid` succeeds
Alive(pid) == pid \in Pids /\ proc[pid].status = "alive"

\* nothing is running and no command has been issued
InitQuiet ==
    /\ proc = [p \in Pids |-> [status |-> "unborn", code |-> -1]]
    /\ dpc = [p \in Pids |-> "unborn"]
    /\ mem = [p \in Pids |-> NewStore]
    /\ mutex = [p \in Pids |-> 0]
    /\ hpc = [p \in Pids |-> "none"]
    /\ cpc = [p \in Pids |-> [t \in Threads |-> "idle"]]
    /\ creg = [p \in Pids |-> [t \in Threads |-> 0]]
    /\ pressed = [p \in Pids |-> 0]
    /\ fg = Idle
    /\ issued = 0
    /\ answer = None
    /\ afterReset = -1
    /\ view = NoView
    /\ arg = NewStore
    /\ op = "none"

InitCommon == now = StartTime /\ InitQuiet

\* data.json holds the counts of an earlier run (a first run without
\* data.json is InitRun); daemon.pid is absent or was left by a daemon
\* that died
Init ==
    /\ InitCommon
    /\ pidFile \in {NoPidFile, PidFileOf(StalePid)}
    /\ dataFile = SaveData(SeedStore)

(***************************************************************************)
(* is_running, in two steps: the read of daemon.pid, then the probe.       *)
(***************************************************************************)
\* is_running up to the parse: Some(pid) to probe, or the early return None
IsRunningRead(file) ==
    IF ~file.exists THEN [some |-> FALSE, pid |-> 0]
    ELSE LET r == ParseU32(Trim(file.text))
         IN  [some |-> r.ok, pid |-> r.val]

\* is_running with a bug: the stale file is left in place
ProbeKeepsStaleFile(pid, file) ==
    IF Alive(pid) THEN [some |-> TRUE, file |-> file]
    ELSE [some |-> FALSE, file |-> file]

\* is_running from `kill -0` on: the result and the PID file it leaves
Probe(pid, file) ==
    IF Alive(pid) THEN [some |-> TRUE, file |-> file]
    ELSE [some |-> FALSE, file |-> NoPidFile]

\* cmd_start with a bug: the daemon is spawned whatever is_running returned
AfterIsRunningSpawnsAnyway(f, some) ==
    CASE f.cmd = "start" /\ f.n = 1 -> [f EXCEPT !.pc = "spawn"]
      [] f.cmd = "stop" ->
             IF some THEN [f EXCEPT !.pc = "kill"] ELSE Idle
      [] OTHER -> Idle

\* the foreground command after is_running returned `some`
AfterIsRunning(f, some) ==
    CASE f.cmd = "start" /\ f.n = 1 ->
             IF some THEN Idle ELSE [f EXCEPT !.pc = "spawn"]
      [] f.cmd = "stop" ->
             IF some THEN [f EXCEPT !.pc = "kill"] ELSE Idle
      [] OTHER -> Idle

\* a command begins with is_running: cmd_start, cmd_stop, cmd_status
Begin(cmd) ==
    /\ fg = Idle
    /\ issued < MaxCmds
    /\ issued' = issued + 1
    /\ LET r == IsRunningRead(pidFile)
           f == [cmd |-> cmd, pc |-> "probe", pid |-> r.pid, n |-> 1]
       IN  /\ fg' = IF r.some THEN f ELSE AfterIsRunning(f, FALSE)
           /\ answer' = IF r.some THEN answer ELSE None
    /\ UNCHANGED <<now, dataFile, pidFile, daemonVars, afterReset, storeVars>>

CmdStart == Begin("start")
CmdStop == Begin("stop")
CmdStatus == Begin("status")

IsRunningProbe ==
    /\ fg.pc = "probe"
    /\ LET r == Probe(fg.pid, pidFile)
       IN  /\ pidFile' = r.file
           /\ answer' = IF r.some THEN Some(fg.pid) ELSE None
           /\ fg' = AfterIsRunning(fg, r.some)
    /\ UNCHANGED <<now, issued, dataFile, daemonVars, afterReset, storeVars>>

\* cmd_start: Command::new(exe).arg("daemon").spawn()
StartSpawn(limit) ==
    /\ fg.cmd = "start" /\ fg.pc = "spawn"
    /\ \E p \in Pids :
          /\ p < FirstPid + limit
          /\ proc[p].status = "unborn"
          /\ \A q \in Pids : q < p => proc[q].status # "unborn"
          /\ proc' = [proc EXCEPT ![p].status = "alive"]
          /\ dpc' = [dpc EXCEPT ![p] = "write_pid"]
    /\ fg' = [fg EXCEPT !.pc = "verify"]
    /\ UNCHANGED <<now, issued, answer, dataFile, pidFile, mem, mutex, hpc,
                   cpc, creg, pressed, afterReset, storeVars>>

\* cmd_start after the sleep: the second is_running
StartVerify ==
    /\ fg.cmd = "start" /\ fg.pc = "verify"
    /\ LET r == IsRunningRead(pidFile)
       IN  /\ fg' = IF r.some
                       THEN [fg EXCEPT !.pc = "probe", !.pid = r.pid, !.n = 2]
                       ELSE Idle
           /\ answer' = IF r.some THEN answer ELSE None
    /\ UNCHANGED <<now, issued, dataFile, pidFile, daemonVars,
                   afterReset, storeVars>>

\* the process leaves the process table; its memory and threads are gone
ExitProcess(p, code) ==
    /\ proc' = [proc EXCEPT ![p] = [status |-> "exited", code |-> code]]
    /\ mem' = [mem EXCEPT ![p] = NewStore]
    /\ mutex' = [mutex EXCEPT ![p] = 0]
    /\ cpc' = [cpc EXCEPT ![p] = [t \in Threads |-> "idle"]]
    /\ creg' = [creg EXCEPT ![p] = [t \in Threads |-> 0]]

\* Whether the handler given to ctrlc::set_handler is registered for the
\* SIGTERM that `kill <pid>` sends is decided by the package manifest (the
\* crate's "termination" feature), which is not among the sources; taken
\* from the specification's process signal contract: the daemon responds to
\* a termination request by running its Stopping sequence.
HandlesTermination == TRUE

\* cmd_stop: `kill <pid>`.  The signal reaches the ctrlc handler when it is
\* installed; before that its default action ends the process.
StopKill ==
    /\ fg.cmd = "stop" /\ fg.pc = "kill"
    /\ fg' = [fg EXCEPT !.pc = "rm"]
    /\ IF Alive(fg.pid) /\ (hpc[fg.pid] = "none" \/ ~HandlesTermination)
       THEN /\ ExitProcess(fg.pid, 143)
            /\ dpc' = [dpc EXCEPT ![fg.pid] = "killed"]
            /\ UNCHANGED hpc
       ELSE /\ hpc' = IF Alive(fg.pid) /\ hpc[fg.pid] = "idle"
                      THEN [hpc EXCEPT ![fg.pid] = "signalled"] ELSE hpc
            /\ UNCHANGED <<proc, dpc, mem, mutex, cpc, creg>>
    /\ UNCHANGED <<now, issued, answer, dataFile, pidFile, pressed,
                   afterReset, storeVars>>

\* cmd_stop: fs::remove_file(get_pid_file())
StopRemovePid ==
    /\ fg.cmd = "stop" /\ fg.pc = "rm"
    /\ pidFile' = NoPidFile
    /\ fg' = Idle
    /\ UNCHANGED <<now, issued, answer, dataFile, daemonVars, afterReset,
                   storeVars>>

\* the answer typed at cmd_reset's prompt, trimmed and lower-cased
TrimLower(input) ==
    CASE input = "y\n" -> "y"
      [] input = " Y\n" -> "y"
      [] input = "yes\n" -> "yes"
      [] input = "n\n" -> "n"
      [] OTHER -> ""

ResetInputs == {"y\n", " Y\n", "yes\n", "n\n", "\n"}

\* cmd_reset: the prompt is printed and the command waits for the answer
CmdReset ==
    /\ fg = Idle
    /\ issued < MaxCmds
    /\ issued' = issued + 1
    /\ fg' = [cmd |-> "reset", pc |-> "prompt", pid |-> 0, n |-> 0]
    /\ UNCHANGED <<now, dataFile, pidFile, answer, daemonVars, afterReset, storeVars>>

\* cmd_reset: the answer is read; "y" saves a new store
ResetAnswer(input) ==
    /\ fg.cmd = "reset" /\ fg.pc = "prompt"
    /\ dataFile' = IF TrimLower(input) = "y" THEN SaveData(NewStore) ELSE dataFile
    /\ fg' = Idle
    /\ afterReset' = IF TrimLower(input) = "y" THEN 0 ELSE afterReset
    /\ UNCHANGED <<now, pidFile, issued, answer, daemonVars, storeVars>>

(***************************************************************************)
(* cmd_daemon: the main thread.                                            *)
(***************************************************************************)
\* fs::write(&pid_file, pid.to_string())
DaemonWritePid(p) ==
    /\ Alive(p) /\ dpc[p] = "write_pid"
    /\ pidFile' = PidFileOf(p)
    /\ dpc' = [dpc EXCEPT ![p] = "load"]
    /\ UNCHANGED <<now, dataFile, proc, mem, mutex, hpc, cpc, creg, pressed,
                   userVars>>

\* Arc::new(Mutex::new(load_data()))
DaemonLoad(p) ==
    /\ Alive(p) /\ dpc[p] = "load"
    /\ mem' = [mem EXCEPT ![p] = LoadData(dataFile).data]
    /\ dpc' = [dpc EXCEPT ![p] = "set_handler"]
    /\ UNCHANGED <<now, dataFile, pidFile, proc, mutex, hpc, cpc, creg,
                   pressed, userVars>>

\* ctrlc::set_handler(..), then listen(callback) is entered
DaemonSetHandler(p) ==
    /\ Alive(p) /\ dpc[p] = "set_handler"
    /\ hpc' = [hpc EXCEPT ![p] = "idle"]
    /\ dpc' = [dpc EXCEPT ![p] = "listen"]
    /\ UNCHANGED <<now, dataFile, pidFile, proc, mem, mutex, cpc, creg,
                   pressed, userVars>>

\* listen(callback) returns Err: at installation or later.  The callback
\* runs inside listen, so none is in progress when listen returns.
HookFails(p) ==
    /\ Alive(p) /\ dpc[p] = "listen"
    /\ \A t \in Threads : cpc[p][t] = "idle"
    /\ dpc' = [dpc EXCEPT ![p] = "hook_err"]
    /\ UNCHANGED <<now, dataFile, pidFile, proc, mem, mutex, hpc, cpc, creg,
                   pressed, userVars>>

\* the Err arm: remove_file(&pid_file); cmd_daemon and main return
DaemonHookExit(p) ==
    /\ Alive(p) /\ dpc[p] = "hook_err"
    /\ pidFile' = NoPidFile
    /\ ExitProcess(p, 0)
    /\ dpc' = [dpc EXCEPT ![p] = "returned"]
    /\ UNCHANGED <<now, dataFile, hpc, pressed, userVars>>

(***************************************************************************)
(* The hook callback.                                                      *)
(***************************************************************************)
\* Mutex::lock with a bug: no mutual exclusion
MutexNoExclusion(p) == TRUE

\* Mutex::lock can be acquired
MutexFree(p) == mutex[p] = 0

\* a KeyPress event is delivered: data_clone.lock(), and increment reads
\* total_count
CbEnter(p, t) ==
    /\ Alive(p) /\ dpc[p] = "listen"
    /\ cpc[p][t] = "idle"
    /\ MutexFree(p)
    /\ mutex' = [mutex EXCEPT ![p] = t]
    /\ creg' = [creg EXCEPT ![p][t] = mem[p].total_count]
    /\ cpc' = [cpc EXCEPT ![p][t] = "increment"]
    /\ pressed' = [pressed EXCEPT ![p] = @ + 1]
    /\ afterReset' = IF afterReset >= 0 THEN afterReset + 1 ELSE afterReset
    /\ UNCHANGED <<now, dataFile, pidFile, proc, dpc, mem, hpc, fg, issued,
                   answer, storeVars>>

\* data.increment(): total_count is written, then the clock is read twice
\* (format_date_storage, current_timestamp); it may advance in between
CbIncrement(p, t) ==
    /\ Alive(p) /\ cpc[p][t] = "increment"
    /\ \E later \in {now} \cup {n \in {now + 1} : CanTick(now)} :
          /\ now' = later
          /\ mem' = [mem EXCEPT ![p] =
                        Increment([mem[p] EXCEPT !.total_count = creg[p][t]],
                                  FormatDateStorage(now), later)]
    /\ cpc' = [cpc EXCEPT ![p][t] = "save"]
    /\ UNCHANGED <<dataFile, pidFile, proc, dpc, mutex, hpc, creg, pressed,
                   userVars>>

\* save_data every 10th count with a bug: the test is on a count of 9
DueOffByOne(data) == data.total_count % SaveEvery = SaveEvery - 1

\* data.total_count % 10 == 0
Due(data) == data.total_count % SaveEvery = 0

\* if data.total_count % 10 == 0 { save_data(&*data) }; the guard is dropped
CbSaveUnlock(p, t) ==
    /\ Alive(p) /\ cpc[p][t] = "save"
    /\ dataFile' = IF Due(mem[p]) THEN SaveData(mem[p]) ELSE dataFile
    /\ mutex' = [mutex EXCEPT ![p] = 0]
    /\ cpc' = [cpc EXCEPT ![p][t] = "idle"]
    /\ creg' = [creg EXCEPT ![p][t] = 0]
    /\ UNCHANGED <<now, pidFile, proc, dpc, mem, hpc, pressed, userVars>>

(***************************************************************************)
(* The termination handler (ctrlc's thread).                               *)
(***************************************************************************)
\* data.lock(); save_data(&*data)
HandlerSave(p) ==
    /\ Alive(p) /\ hpc[p] = "signalled"
    /\ MutexFree(p)
    /\ mutex' = [mutex EXCEPT ![p] = -1]
    /\ dataFile' = SaveData(mem[p])
    /\ hpc' = [hpc EXCEPT ![p] = "remove_pid"]
    /\ UNCHANGED <<now, pidFile, proc, dpc, mem, cpc, creg, pressed,
                   userVars>>

\* fs::remove_file(get_pid_file())
HandlerRemovePid(p) ==
    /\ Alive(p) /\ hpc[p] = "remove_pid"
    /\ pidFile' = NoPidFile
    /\ hpc' = [hpc EXCEPT ![p] = "exit"]
    /\ UNCHANGED <<now, dataFile, proc, dpc, mem, mutex, cpc, creg, pressed,
                   userVars>>

\* std::process::exit(0)
HandlerExit(p) ==
    /\ Alive(p) /\ hpc[p] = "exit"
    /\ ExitProcess(p, 0)
    /\ hpc' = [hpc EXCEPT ![p] = "exited"]
    /\ dpc' = [dpc EXCEPT ![p] = "exited"]
    /\ UNCHANGED <<now, dataFile, pidFile, pressed, userVars>>

\* a second passes
Tick ==
    /\ CanTick(now)
    /\ now' = now + 1
    /\ UNCHANGED <<dataFile, pidFile, daemonVars, userVars>>

(***************************************************************************)
(* The whole system: any commands, up to MaxDaemons daemons, MaxKeys key   *)
(* presses, each daemon's hook delivering its events one at a time.        *)
(***************************************************************************)
KeysDelivered ==
    LET RECURSIVE Sum(_)
        Sum(S) == IF S = {} THEN 0
                  ELSE LET p == CHOOSE q \in S : TRUE
                       IN  pressed[p] + Sum(S \ {p})
    IN  Sum(Pids)

Spawn == StartSpawn(MaxDaemons)
Reset == CmdReset \/ \E input \in ResetInputs : ResetAnswer(input)
KeyPress == KeysDelivered < MaxKeys /\ \E p \in Pids : CbEnter(p, 1)
Callback == \E p \in Pids, t \in Threads : CbIncrement(p, t) \/ CbSaveUnlock(p, t)
DaemonStep ==
    \E p \in Pids : DaemonWritePid(p) \/ DaemonLoad(p) \/ DaemonSetHandler(p)
HookError == \E p \in Pids : HookFails(p) \/ DaemonHookExit(p)
Handler == \E p \in Pids : HandlerSave(p) \/ HandlerRemovePid(p) \/ HandlerExit(p)

Next ==
    \/ CmdStart
    \/ CmdStop
    \/ CmdStatus
    \/ IsRunningProbe
    \/ Spawn
    \/ StartVerify
    \/ StopKill
    \/ StopRemovePid
    \/ Reset
    \/ DaemonStep
    \/ HookError
    \/ KeyPress
    \/ Callback
    \/ Handler

Spec == Init /\ [][Next]_vars

(***************************************************************************)
(* One daemon's life: start, key presses, stop or a hook failure.  The     *)
(* daemon starts from an empty data file (absent, or as cmd_init leaves    *)
(* it), its callback is invoked up to MaxRunKeys times from NumThreads     *)
(* concurrent contexts, the clock runs, and nobody resets.                 *)
(***************************************************************************)
InitRun ==
    /\ InitCommon
    /\ pidFile \in {NoPidFile, PidFileOf(StalePid)}
    /\ dataFile \in {NoFile, SaveData(NewStore)}

RunSpawn == StartSpawn(1)
RunKeyPress ==
    KeysDelivered < MaxRunKeys /\ \E t \in Threads : CbEnter(FirstPid, t)

NextRun ==
    \/ CmdStart
    \/ CmdStop
    \/ IsRunningProbe
    \/ RunSpawn
    \/ StartVerify
    \/ StopKill
    \/ StopRemovePid
    \/ DaemonStep
    \/ HookError
    \/ RunKeyPress
    \/ Callback
    \/ Handler
    \/ Tick

SpecRun == InitRun /\ [][NextRun]_vars

(***************************************************************************)
(* The counting daemon over several days: a daemon that started from an    *)
(* empty data file is listening, its callback is invoked up to MaxDayKeys  *)
(* times, and the clock runs over midnight MaxDays times.                  *)
(***************************************************************************)
InitDays ==
    /\ now = StartTime - MaxTicks
    /\ proc = [p \in Pids |->
                  IF p = FirstPid THEN [status |-> "alive", code |-> -1]
                  ELSE [status |-> "unborn", code |-> -1]]
    /\ dpc = [p \in Pids |-> IF p = FirstPid THEN "listen" ELSE "unborn"]
    /\ hpc = [p \in Pids |-> IF p = FirstPid THEN "idle" ELSE "none"]
    /\ mem = [p \in Pids |-> NewStore]
    /\ mutex = [p \in Pids |-> 0]
    /\ cpc = [p \in Pids |-> [t \in Threads |-> "idle"]]
    /\ creg = [p \in Pids |-> [t \in Threads |-> 0]]
    /\ pressed = [p \in Pids |-> 0]
    /\ fg = Idle
    /\ issued = 1
    /\ answer = Some(FirstPid)
    /\ afterReset = -1
    /\ view = NoView
    /\ arg = NewStore
    /\ op = "none"
    /\ pidFile = PidFileOf(FirstPid)
    /\ dataFile \in {NoFile, SaveData(NewStore)}

\* the clock moves on by a day
DayPasses ==
    /\ now + DaySecs <= StartTime + MaxDays * DaySecs + MaxTicks
    /\ now' = now + DaySecs
    /\ UNCHANGED <<dataFile, pidFile, daemonVars, userVars>>

DayKeyPress == KeysDelivered < MaxDayKeys /\ CbEnter(FirstPid, 1)

NextDays ==
    \/ DayKeyPress
    \/ Callback
    \/ Tick
    \/ DayPasses

SpecDays == InitDays /\ [][NextDays]_vars

(***************************************************************************)
(* load_data and save_data on their own: a reader (cmd_stats, cmd_export)  *)
(* loads whatever data.json holds, a writer saves any store.               *)
(***************************************************************************)
\* the sequences over S of length at most n
SeqsUpTo(S, n) == UNION {[1..k -> S] : k \in 0..n}

RecordSamples ==
    {DailyRecord(d, c, ts) :
        d \in {FormatDateStorage(StartTime), FormatDateStorage(StartTime + 1)},
        c \in {1, MaxCount},
        ts \in {StartTime, StartTime + 1}}

StoreSamples ==
    {[total_count |-> n, daily_records |-> rs] :
        n \in 0..MaxCount, rs \in SeqsUpTo(RecordSamples, MaxRecs)}

\* entries a data.json written by hand or by another version may hold
EntrySamples ==
    {Entry("total_count", v) :
        v \in {JNum(n) : n \in -1..MaxCount} \cup {JStr(<<1>>)}}
    \cup {Entry("daily_records", v) :
        v \in {JArr(<<>>), JNum(0),
               JArr(<<SerDailyRecord(DailyRecord(<<1, 9>>, 1, StartTime))>>),
               JArr(<<JObj(<<Entry("date", JStr(<<1, 9>>)),
                             Entry("count", JNum(1))>>)>>)}}
    \cup {Entry("version", JNum(1))}

DocSamples ==
    {JObj(o) : o \in SeqsUpTo(EntrySamples, 3)}
    \cup {JArr(<<JNum(1), JArr(<<>>)>>), JArr(<<JNum(1)>>), JNum(1)}

FileSamples ==
    {NoFile, FileOf(NotJson), FileOf(InvalidUtf8)}
    \cup {FileOf(d) : d \in DocSamples}

InitStore ==
    /\ InitCommon
    /\ pidFile = NoPidFile
    /\ dataFile \in FileSamples

\* let data = load_data();
ReaderLoad ==
    /\ view' = LoadData(dataFile)
    /\ op' = IF op = "save" THEN "save_load" ELSE "load"
    /\ UNCHANGED <<now, dataFile, pidFile, daemonVars, fg, issued, answer,
                   afterReset, arg>>

\* save_data(&data)
WriterSave(data) ==
    /\ dataFile' = SaveData(data)
    /\ arg' = data
    /\ view' = NoView
    /\ op' = "save"
    /\ UNCHANGED <<now, pidFile, daemonVars, fg, issued, answer,
                   afterReset>>

NextStore ==
    \/ ReaderLoad
    \/ \E data \in StoreSamples : WriterSave(data)

SpecStore == InitStore /\ [][NextStore]_vars

(***************************************************************************)
(* The statistics a reader (cmd_stats, cmd_export) computes from the       *)
(* loaded store: the weekly and monthly sums and the displayed dates.  The *)
(* clock is a few days after the epoch (a machine whose clock was never    *)
(* set) or at StatsDay, and data.json holds records of several ages.       *)
(***************************************************************************)
\* the system clock when the statistics are asked for
StatsClocks == {5 * DaySecs, StatsDay * DaySecs + 1}

\* ages, in days, of the records
AgeSamples == {0, 3, 7, 8, 30, 31, MaxAgeDays}

\* the records a daemon created `age` days before t, for the ages that
\* do not lie before the epoch
StatsRecords(t) ==
    {DailyRecord(FormatDateStorage(t - age * DaySecs), c, t - age * DaySecs) :
        age \in {a \in AgeSamples : a * DaySecs <= t}, c \in {5, 9}}

StatsStores(t) ==
    {[total_count |-> SumCounts(rs), daily_records |-> rs] :
        rs \in SeqsUpTo(StatsRecords(t), 2)}

InitStats ==
    /\ InitQuiet
    /\ pidFile = NoPidFile
    /\ now \in StatsClocks
    /\ dataFile \in {SaveData(data) : data \in StatsStores(now)}

\* data.get_weekly_stats() on the loaded store
StatsWeekly ==
    /\ \E build \in Builds :
          view' = GetWeeklyStats(LoadData(dataFile).data, now, build)
    /\ op' = "weekly"
    /\ UNCHANGED <<now, dataFile, pidFile, daemonVars, fg, issued, answer,
                   afterReset, arg>>

\* data.get_monthly_stats() on the loaded store
StatsMonthly ==
    /\ \E build \in Builds :
          view' = GetMonthlyStats(LoadData(dataFile).data, now, build)
    /\ op' = "monthly"
    /\ UNCHANGED <<now, dataFile, pidFile, daemonVars, fg, issued, answer,
                   afterReset, arg>>

\* format_date_display of the timestamp of a record of the loaded store
StatsDisplay ==
    /\ \E i \in 1..Len(LoadData(dataFile).data.daily_records) :
          /\ arg' = LoadData(dataFile).data.daily_records[i]
          /\ view' = FormatDateDisplay(arg'.timestamp)
    /\ op' = "display"
    /\ UNCHANGED <<now, dataFile, pidFile, daemonVars, fg, issued, answer,
                   afterReset>>

NextStats ==
    \/ StatsWeekly
    \/ StatsMonthly
    \/ StatsDisplay

SpecStats == InitStats /\ [][NextStats]_vars

(***************************************************************************)
(* Properties.                                                             *)
(***************************************************************************)
\* what load_data returns for data.json as it is now
Persisted == LoadData(dataFile).data

AllIdle(p) == \A t \in Threads : cpc[p][t] = "idle"

\* C1: K callback invocations, in any interleaving, against the one
\* mutex-guarded store of a daemon seeded empty leave total_count = K: every
\* invocation that has incremented is counted once, and with none in
\* progress total_count is the number of invocations.
C1_NoLostIncrement ==
    \A p \in Pids :
        Alive(p) =>
            /\ mem[p].total_count =
                   pressed[p] - Cardinality({t \in Threads : cpc[p][t] = "increment"})
            /\ AllIdle(p) => mem[p].total_count = pressed[p]

C1_Witness ==
    \E p \in Pids :
        /\ Alive(p) /\ AllIdle(p)
        /\ pressed[p] = MaxRunKeys
        /\ mem[p].total_count = MaxRunKeys

\* C2: in the run start -> K key presses -> stop from an empty data file,
\* data.json holds every multiple of 10 the count has reached (it equals the
\* store right after the 10th, 20th, .. increment), and once the stop has
\* ended the daemon it holds total_count = K.
C2_RunPersisted ==
    \A p \in Pids :
        /\ (Alive(p) /\ mutex[p] = 0) =>
               /\ Persisted.total_count =
                      mem[p].total_count - (mem[p].total_count % 10)
               /\ mem[p].total_count % 10 = 0 => Persisted = mem[p]
        /\ (proc[p].status = "exited" /\ dpc[p] \in {"exited", "killed"}) =>
               Persisted.total_count = pressed[p]

C2_Witness ==
    \E p \in Pids :
        /\ proc[p].status = "exited" /\ proc[p].code = 0 /\ dpc[p] = "exited"
        /\ pressed[p] = MaxRunKeys
        /\ MaxRunKeys % 10 # 0
        /\ Persisted.total_count = MaxRunKeys

\* C3: a daemon that received a termination request saves, then removes the
\* PID file, then exits with status 0; the PID file naming it is not removed
\* before its final save has completed.
C3_StoppingSequence ==
    [][\A p \in Pids :
          /\ (Alive(p) /\ hpc[p] = "signalled" /\ pidFile = PidFileOf(p)) =>
                 pidFile' = pidFile
          /\ (Alive(p) /\ hpc[p] \in {"signalled", "remove_pid", "exit"}
                /\ proc'[p].status = "exited") =>
                 (hpc[p] = "exit" /\ proc'[p].code = 0)
          /\ (hpc[p] = "remove_pid" /\ hpc'[p] = "exit") => ~pidFile'.exists
      ]_vars

\* C4: after a hook failure the daemon has removed the PID file and exits
\* with a non-zero status.
C4_HookFailureExit ==
    [][\A p \in Pids :
          (dpc[p] = "hook_err" /\ proc'[p].status = "exited") =>
              (~pidFile'.exists /\ proc'[p].code # 0)
      ]_vars

\* C5: when a daemon exits through the termination handler or the hook-failure
\* path, data.json equals the store it had in memory.
C5_SavedAtShutdown ==
    [][\A p \in Pids :
          (Alive(p) /\ proc'[p].status = "exited"
             /\ dpc'[p] \in {"exited", "returned"}) =>
              LoadData(dataFile').data = mem[p]
      ]_vars

\* C6: while a daemon is running, with no callback or handler inside its
\* critical section, its total_count is at most 9 ahead of the persisted
\* total_count, and right after an increment that makes total_count a
\* multiple of 10 the persisted store equals the store in memory.
C6_DurabilityWindow ==
    /\ [](\A p \in Pids :
            (Alive(p) /\ dpc[p] = "listen" /\ mutex[p] = 0) =>
                mem[p].total_count - Persisted.total_count <= 9)
    /\ [][\A p \in Pids, t \in Threads :
            (cpc[p][t] = "save" /\ cpc'[p][t] = "idle" /\ Alive(p)'
               /\ mem[p].total_count % 10 = 0) =>
                LoadData(dataFile').data = mem'[p]
        ]_vars

\* C7: a liveness check that read the pid of a process that has exited
\* returns none and deletes the PID file; a check that finds no PID file
\* returns none; a check that read the pid of a live process returns that
\* pid and leaves the file in place.
C7_StaleSelfHeals ==
    [][/\ (fg.pc = "probe" /\ fg' # fg /\ ~Alive(fg.pid)) =>
              (answer' = None /\ pidFile' = NoPidFile)
       /\ (fg.pc = "probe" /\ fg' # fg /\ Alive(fg.pid)) =>
              (answer' = Some(fg.pid) /\ pidFile' = pidFile)
       /\ (((fg = Idle /\ issued' # issued /\ fg'.cmd # "reset")
              \/ (fg.pc = "verify" /\ fg' # fg))
             /\ ~pidFile.exists) =>
              (answer' = None /\ pidFile' = pidFile)
      ]_vars

C7_Witness ==
    /\ fg.cmd = "start" /\ fg.pc = "spawn" /\ fg.pid = StalePid
    /\ answer = None
    /\ ~pidFile.exists

\* C8: load_data on a missing data file, or on one whose content cannot be
\* parsed, returns the empty store and raises nothing.
C8_LoadRecovers ==
    (op = "load"
       /\ (~dataFile.exists \/ dataFile.doc \in {NotJson, InvalidUtf8}
             \/ ~DeKeystrokeData(dataFile.doc).ok)) =>
        (~view.raised /\ view.data = NewStore)

C8_Witness ==
    /\ op = "load" /\ dataFile = FileOf(NotJson)
    /\ view = [raised |-> FALSE, data |-> NewStore]

\* C9: saving any store and loading it again yields an equal store.
C9_RoundTrip == op = "save_load" => (~view.raised /\ view.data = arg)

C9_Witness ==
    /\ op = "save_load"
    /\ Len(arg.daily_records) = MaxRecs /\ arg.total_count = MaxCount
    /\ view.data = arg

\* a JSON object whose known fields appear at most once, each of its type
WellFormed(doc) ==
    /\ doc.t = "obj"
    /\ Len(FieldValues(doc.o, "total_count")) <= 1
    /\ Len(FieldValues(doc.o, "daily_records")) <= 1
    /\ \A i \in 1..Len(doc.o) :
          /\ doc.o[i].k = "total_count" => DeU64(doc.o[i].v).ok
          /\ doc.o[i].k = "daily_records" => DeRecords(doc.o[i].v).ok

\* C10: a persisted record that lacks a field or carries an unknown field is
\* no error for load_data: the missing field is zero/empty and the fields
\* present keep their values.
C10_MissingFieldDefaults ==
    (op = "load" /\ dataFile.exists /\ WellFormed(dataFile.doc)) =>
        /\ ~view.raised
        /\ view.data.total_count =
               IF Len(FieldValues(dataFile.doc.o, "total_count")) = 0 THEN 0
               ELSE FieldValues(dataFile.doc.o, "total_count")[1].n
        /\ view.data.daily_records =
               IF Len(FieldValues(dataFile.doc.o, "daily_records")) = 0 THEN <<>>
               ELSE DeRecords(FieldValues(dataFile.doc.o, "daily_records")[1]).val

\* C11: N increments of an empty store while the clock stays in one day
\* bucket give total_count = N and, for N >= 1, exactly one DailyRecord, of
\* that bucket, with count = N.
C11_SingleDayCount ==
    \A p \in Pids :
        (Alive(p) /\ AllIdle(p) /\ now \div DaySecs = StartDay) =>
            /\ mem[p].total_count = pressed[p]
            /\ pressed[p] = 0 => mem[p].daily_records = <<>>
            /\ pressed[p] >= 1 =>
                   /\ Len(mem[p].daily_records) = 1
                   /\ mem[p].daily_records[1].date = U64ToString(StartDay)
                   /\ mem[p].daily_records[1].count = pressed[p]

C11_Witness ==
    /\ now = StartTime
    /\ Alive(FirstPid) /\ AllIdle(FirstPid)
    /\ pressed[FirstPid] = MaxDayKeys
    /\ Len(mem[FirstPid].daily_records) = 1
    /\ mem[FirstPid].daily_records[1].count = MaxDayKeys

\* the step in which callback invocation t of daemon p runs data.increment()
IncrementStep(p, t) == cpc[p][t] = "increment" /\ cpc'[p][t] = "save"

\* the store has a record for day key d
HasRecord(data, d) ==
    \E i \in 1..Len(data.daily_records) : data.daily_records[i].date = d

\* C12: an increment on a day bucket that has no record appends a DailyRecord
\* for that bucket with count 1 and the timestamp read at that increment,
\* and leaves every earlier record as it was.
C12_NewDayNewRecord ==
    [][\A p \in Pids, t \in Threads :
          (IncrementStep(p, t) /\ ~HasRecord(mem[p], FormatDateStorage(now))) =>
              mem'[p].daily_records =
                  Append(mem[p].daily_records,
                         DailyRecord(FormatDateStorage(now), 1, now'))
      ]_vars

C12_Witness ==
    /\ cpc[FirstPid][1] = "save"
    /\ Len(mem[FirstPid].daily_records) = 2
    /\ mem[FirstPid].daily_records[1].count >= 2
    /\ mem[FirstPid].daily_records[2] =
           DailyRecord(U64ToString(StartDay + 1), 1, now)

\* C13: the daemon's store never has two DailyRecords for one day bucket,
\* and every increment leaves each existing record's timestamp unchanged,
\* its count not decreased, and total_count not decreased.
C13_StoreInvariants ==
    /\ [](\A p \in Pids :
            \A i, j \in 1..Len(mem[p].daily_records) :
                mem[p].daily_records[i].date = mem[p].daily_records[j].date =>
                    i = j)
    /\ [][\A p \in Pids, t \in Threads :
            IncrementStep(p, t) =>
                /\ mem'[p].total_count >= mem[p].total_count
                /\ Len(mem'[p].daily_records) >= Len(mem[p].daily_records)
                /\ \A i \in 1..Len(mem[p].daily_records) :
                      /\ mem'[p].daily_records[i].date =
                             mem[p].daily_records[i].date
                      /\ mem'[p].daily_records[i].timestamp =
                             mem[p].daily_records[i].timestamp
                      /\ mem'[p].daily_records[i].count >=
                             mem[p].daily_records[i].count
        ]_vars

C13_Witness ==
    /\ cpc[FirstPid][1] = "save"
    /\ Len(mem[FirstPid].daily_records) = MaxDays + 1
    /\ mem[FirstPid].daily_records[MaxDays + 1].count = 2
    /\ mem[FirstPid].daily_records[MaxDays + 1].timestamp < now

\* C19: every DailyRecord that increment creates has a timestamp inside its
\* own day bucket: floor(timestamp / 86400) is the record's date key.
C19_TimestampInBucket ==
    \A p \in Pids :
        \A i \in 1..Len(mem[p].daily_records) :
            FormatDateStorage(mem[p].daily_records[i].timestamp) =
                mem[p].daily_records[i].date

\* C18: from an empty store on, the daemon's total_count is the sum of its
\* records' counts, and so is every snapshot it has written to data.json.
C18_TotalIsSumOfCounts ==
    /\ \A p \in Pids :
          Alive(p) => mem[p].total_count = SumCounts(mem[p].daily_records)
    /\ dataFile.exists =>
          /\ ~LoadData(dataFile).raised
          /\ DeKeystrokeData(dataFile.doc).ok
          /\ Persisted.total_count = SumCounts(Persisted.daily_records)

C18_Witness ==
    /\ dataFile.exists
    /\ Persisted.total_count = 2 * SaveEvery
    /\ Len(Persisted.daily_records) = 2
    /\ SumCounts(Persisted.daily_records) = 2 * SaveEvery

\* the records of rs whose timestamp is within the last `window` seconds
\* of the clock value t
RECURSIVE WithinLast(_, _, _)
WithinLast(rs, t, window) ==
    IF rs = <<>> THEN <<>>
    ELSE IF Head(rs).timestamp + window >= t
         THEN <<Head(rs)>> \o WithinLast(Tail(rs), t, window)
         ELSE WithinLast(Tail(rs), t, window)

\* C14: the weekly sum is the sum of count over exactly the records whose
\* timestamp is within the last 7 * 86400 seconds of now, also when now is
\* smaller than the window (no underflow, no wrap); likewise the monthly
\* sum with 30 * 86400.
C14_WindowedSums ==
    /\ op = "weekly" =>
          /\ ~view.panicked
          /\ view.sum = SumCounts(WithinLast(Persisted.daily_records, now,
                                             7 * DaySecs))
    /\ op = "monthly" =>
          /\ ~view.panicked
          /\ view.sum = SumCounts(WithinLast(Persisted.daily_records, now,
                                             30 * DaySecs))

\* the length of the month named mon
MonthLength(mon) ==
    MonthDays[CHOOSE i \in 1..Len(MonthNames) : MonthNames[i] = mon]

\* C20: format_date_display gives a 2-digit day between 01 and the length
\* of the month it names.
C20_DisplayDayInMonth ==
    op = "display" =>
        /\ Len(view.day) = 2
        /\ DigitsValue(view.day) >= 1
        /\ DigitsValue(view.day) <= MonthLength(view.month)

\* C15: a start whose liveness check finds the PID file naming a live
\* process ends there: it spawns no daemon and leaves the process table, the
\* PID file and the data file as they are.
C15_StartWithLiveDaemon ==
    [][(fg.cmd = "start" /\ fg.n = 1 /\ fg.pc = "probe" /\ fg' # fg
          /\ Alive(fg.pid)) =>
           /\ fg' = Idle
           /\ answer' = Some(fg.pid)
           /\ proc' = proc /\ dpc' = dpc
           /\ pidFile' = pidFile
           /\ dataFile' = dataFile
      ]_vars

C15_Witness ==
    /\ fg.cmd = "start" /\ fg.n = 1 /\ fg.pc = "probe"
    /\ Alive(fg.pid) /\ dpc[fg.pid] = "listen"
    /\ pidFile = PidFileOf(fg.pid)
    /\ \A p \in Pids : p # fg.pid => proc[p].status = "unborn"

\* C16: the PID file that names a live daemon which has recorded its pid and
\* is not shutting down is not removed by another daemon's termination
\* handler, nor by a stop command that targeted another daemon.
C16_NoForeignDeregistration ==
    [][\A p \in Pids :
          (Alive(p) /\ dpc[p] \in {"load", "set_handler", "listen"}
             /\ hpc[p] \in {"none", "idle"}
             /\ pidFile = PidFileOf(p) /\ ~pidFile'.exists) =>
              /\ \A q \in Pids : ~(hpc[q] = "remove_pid" /\ hpc'[q] = "exit")
              /\ (fg.cmd = "stop" /\ fg' # fg) => fg.pid = p
      ]_vars

\* C17: after a confirmed reset data.json holds the empty store, and every
\* store persisted afterwards counts only key presses observed after the
\* reset, also when a daemon was running at the time of the reset.
C17_ResetIsNotUndone ==
    afterReset >= 0 =>
        /\ Persisted.total_count <= afterReset
        /\ SumCounts(Persisted.daily_records) <= afterReset
        /\ afterReset = 0 => Persisted = NewStore

====
